---- MODULE Spec2Model ----
(***************************************************************************)
(* A model of mlpack's AdamUpdate policy (src/adam/adam_update.hpp): the   *)
(* Adam and AdaMax update rules for stochastic gradient descent.           *)
(*                                                                         *)
(* A double is modelled as an extended rational <<n, d>>: d > 0 and        *)
(* gcd(n, d) = 1 for a finite value, <<1, 0>> and <<-1, 0>> for the two    *)
(* infinities and <<0, 0>> for NaN.  +, -, * and / are exact (no rounding, *)
(* no overflow to infinity, no signed zero) and follow IEEE 754 on the     *)
(* special values; std::sqrt is rounded to SqrtBits fractional bits.       *)
(* An arma::mat is a record [n_rows, n_cols, mem] with mem in column-major *)
(* order.                                                                  *)
(***************************************************************************)
EXTENDS Integers, Sequences, FiniteSets, TLC

\* ------------------------------------------------------------------ bounds
\* Calls (Initialize, Update, writes) explored in one behaviour.
MaxCalls == 4
\* Fractional bits kept by the modelled std::sqrt.
SqrtBits == 2
\* Update calls of the constant-gradient run.
MaxRun == 8

\* ------------------------------------------------------------- arithmetic
RECURSIVE GCD(_, _)
GCD(a, b) == IF b = 0 THEN a ELSE GCD(b, a % b)

AbsInt(n) == IF n < 0 THEN -n ELSE n
SignInt(n) == IF n > 0 THEN 1 ELSE IF n < 0 THEN -1 ELSE 0

\* The canonical form of the extended rational n/d.
Norm(n, d) ==
  IF d = 0 THEN <<SignInt(n), 0>>
  ELSE LET s == IF d < 0 THEN -1 ELSE 1
           g == GCD(AbsInt(n), AbsInt(d))
       IN  <<(s * n) \div g, (s * d) \div g>>

Zero == <<0, 1>>
One == <<1, 1>>
NaN == <<0, 0>>
PosInf == <<1, 0>>
NegInf == <<-1, 0>>
Q(n, d) == Norm(n, d)

IsNaN(a) == a = NaN
IsFinite(a) == a[2] # 0

Neg(a) == <<-a[1], a[2]>>
Abs(a) == <<AbsInt(a[1]), a[2]>>

Add(a, b) ==
  IF IsNaN(a) \/ IsNaN(b) THEN NaN
  ELSE IF a[2] = 0 /\ b[2] = 0 THEN (IF a = b THEN a ELSE NaN)
  ELSE Norm(a[1] * b[2] + b[1] * a[2], a[2] * b[2])

Sub(a, b) == Add(a, Neg(b))

Mul(a, b) == Norm(a[1] * b[1], a[2] * b[2])

\* 1/a; 1/0 is +inf (the model has no negative zero).
Recip(a) ==
  IF IsNaN(a) THEN NaN
  ELSE IF a[1] = 0 THEN PosInf
  ELSE IF a[1] > 0 THEN <<a[2], a[1]>>
  ELSE <<-a[2], -a[1]>>

Div(a, b) == Mul(a, Recip(b))

\* a < b as the double comparison: false when either side is NaN.
Lt(a, b) ==
  IF IsNaN(a) \/ IsNaN(b) THEN FALSE
  ELSE IF a[2] = 0 /\ b[2] = 0 THEN a[1] < b[1]
  ELSE IF a[2] = 0 THEN a[1] < 0
  ELSE IF b[2] = 0 THEN b[1] > 0
  ELSE a[1] * b[2] < b[1] * a[2]

Le(a, b) == a = b \/ Lt(a, b)

\* std::max(a, b)
Max(a, b) == IF Lt(a, b) THEN b ELSE a

\* The largest r with r * r <= n.
ISqrt(n) == CHOOSE r \in 0..n : r * r <= n /\ (r + 1) * (r + 1) > n

RECURSIVE Pow2(_)
Pow2(k) == IF k = 0 THEN 1 ELSE 2 * Pow2(k - 1)

\* std::sqrt, rounded to the nearest multiple of 2^-SqrtBits.
Sqrt(a) ==
  IF IsNaN(a) \/ a[1] < 0 THEN NaN
  ELSE IF a[2] = 0 THEN PosInf
  ELSE LET P == Pow2(SqrtBits)
           r == ISqrt((4 * P * P * a[1]) \div a[2])
       IN  Norm((r + 1) \div 2, P)

RECURSIVE PowRec(_, _)
PowRec(b, i) == IF i = 0 THEN One ELSE Mul(b, PowRec(b, i - 1))

\* A pow that takes 0^0 to be 0.
PowZeroBase(b, i) == IF b = Zero THEN Zero ELSE PowRec(b, i)

\* std::pow(b, (double) i) for an unsigned i: pow(x, 0) is 1 for every x,
\* zero and NaN included.
Pow(b, i) == PowRec(b, i)

\* --------------------------------------------------------------- matrices
Mat(r, c, mem) == [n_rows |-> r, n_cols |-> c, mem |-> mem]

\* A default-constructed arma::mat.
Empty == Mat(0, 0, <<>>)

NElem(A) == A.n_rows * A.n_cols
SameSize(A, B) == A.n_rows = B.n_rows /\ A.n_cols = B.n_cols

\* arma::zeros<arma::mat>(rows, cols)
Zeros(rows, cols) == Mat(rows, cols, [k \in 1..(rows * cols) |-> Zero])

\* The element-wise operations of Armadillo; the result has the size of the
\* first operand.
MatScale(A, x) ==
  Mat(A.n_rows, A.n_cols, [k \in 1..NElem(A) |-> Mul(A.mem[k], x)])
ScaleMat(x, A) ==
  Mat(A.n_rows, A.n_cols, [k \in 1..NElem(A) |-> Mul(x, A.mem[k])])
MatPlus(A, x) ==
  Mat(A.n_rows, A.n_cols, [k \in 1..NElem(A) |-> Add(A.mem[k], x)])
MatAbs(A) ==
  Mat(A.n_rows, A.n_cols, [k \in 1..NElem(A) |-> Abs(A.mem[k])])
MatSqrt(A) ==
  Mat(A.n_rows, A.n_cols, [k \in 1..NElem(A) |-> Sqrt(A.mem[k])])
MatAdd(A, B) ==
  Mat(A.n_rows, A.n_cols, [k \in 1..NElem(A) |-> Add(A.mem[k], B.mem[k])])
MatSub(A, B) ==
  Mat(A.n_rows, A.n_cols, [k \in 1..NElem(A) |-> Sub(A.mem[k], B.mem[k])])
MatSchur(A, B) ==
  Mat(A.n_rows, A.n_cols, [k \in 1..NElem(A) |-> Mul(A.mem[k], B.mem[k])])
MatDiv(A, B) ==
  Mat(A.n_rows, A.n_cols, [k \in 1..NElem(A) |-> Div(A.mem[k], B.mem[k])])
MatMax(A, B) ==
  Mat(A.n_rows, A.n_cols, [k \in 1..NElem(A) |-> Max(A.mem[k], B.mem[k])])

\* All rows x cols matrices with entries in S.
MatsOver(rows, cols, S) ==
  {Mat(rows, cols, mem) : mem \in [1..(rows * cols) -> S]}

\* ------------------------------------------------------------ input sets
\* Values the caller passes or writes through the accessors.
Epsilons == {Zero, Q(1, 2)}
Beta1s == {Zero, Q(1, 2), One}
Beta2s == {Zero, Q(3, 4)}
StepSizes == {Q(1, 2)}
GradientVals == {Zero, Q(-2, 1)}
ParamVals == {One}
Shapes == {<<1, 1>>, <<2, 1>>}
\* The iteration indices i the caller passes; 0 is before the first iteration.
Iterations == {0, 1, 2}
\* What a read past the end of a matrix's memory may yield.
GarbageVals == {Zero, One}

Gradients(A) == MatsOver(A.n_rows, A.n_cols, GradientVals)

\* ------------------------------------------------------------------ state
VARIABLES
  epsilon,    \* AdamUpdate::epsilon
  beta1,      \* AdamUpdate::beta1
  beta2,      \* AdamUpdate::beta2
  adaMax,     \* AdamUpdate::adaMax
  m,          \* AdamUpdate::m, the first moment
  u,          \* AdamUpdate::u, the exponentially weighted infinity norm
  v,          \* AdamUpdate::v, the second moment
  iterate,    \* the caller's parameter matrix, passed to Update by reference
  calls,      \* calls made on the instance so far
  last,       \* the last call, its arguments and the state it started from
  run         \* the Update calls made since the last Initialize

vars == <<epsilon, beta1, beta2, adaMax, m, u, v, iterate, calls, last, run>>
config == <<epsilon, beta1, beta2, adaMax>>

\* The second-order accumulator Update reads and writes.
Active == IF adaMax THEN u ELSE v

\* The accumulators have the shape Initialize gave them.
Ready == NElem(m) > 0 /\ SameSize(Active, m)

\* The record of a call of op: the state it starts from; its arguments are
\* filled in by the caller.
NoCall(op) ==
  [op |-> op, ready |-> Ready, outcome |-> "ok", m |-> m, u |-> u, v |-> v,
   iterate |-> iterate, gradient |-> Empty, stepSize |-> Zero, i |-> 0,
   rows |-> 0, cols |-> 0]

\* The record of a write, which has no arguments the properties refer to.
NoArgs(op) ==
  [op |-> op, ready |-> FALSE, outcome |-> "ok", m |-> Empty, u |-> Empty,
   v |-> Empty, iterate |-> Empty, gradient |-> Empty, stepSize |-> Zero,
   i |-> 0, rows |-> 0, cols |-> 0]

\* No run of consecutive Update calls is being followed.
NoRun ==
  [open |-> FALSE, n |-> 0, start |-> Empty, gradient |-> Empty,
   inOrder |-> FALSE]

\* ---------------------------------------------------------- the operations
\* Initialize that keeps the contents of a matrix whose size does not change.
InitializeKeep(old, rows, cols) ==
  IF old.n_rows = rows /\ old.n_cols = cols THEN old ELSE Zeros(rows, cols)

\* What Initialize assigns to an accumulator it allocates.
InitializeMat(old, rows, cols) == Zeros(rows, cols)

\* The first moment without the decay of its previous value.
FirstMomentNoDecay(m_, beta1_, gradient) ==
  MatAdd(m_, ScaleMat(Sub(One, beta1_), gradient))

\* m *= beta1;  m += (1 - beta1) * gradient;
FirstMoment(m_, beta1_, gradient) ==
  MatAdd(MatScale(m_, beta1_), ScaleMat(Sub(One, beta1_), gradient))

\* The infinity norm as the largest absolute gradient seen.
InfinityNormStrict(u_, beta2_, gradient) == MatMax(u_, MatAbs(gradient))

\* u *= beta2;  u = arma::max(u, arma::abs(gradient));
InfinityNorm(u_, beta2_, gradient) ==
  MatMax(MatScale(u_, beta2_), MatAbs(gradient))

\* v *= beta2;  v += (1 - beta2) * (gradient % gradient);
SecondMoment(v_, beta2_, gradient) ==
  MatAdd(MatScale(v_, beta2_),
         ScaleMat(Sub(One, beta2_), MatSchur(gradient, gradient)))

\* A bias correction that counts iterations from 0.
BiasCorrectionZeroBased(beta, i) ==
  Sub(One, Pow(beta, IF i = 0 THEN 0 ELSE i - 1))

\* 1.0 - std::pow(beta, (double) i)
BiasCorrection(beta, i) == Sub(One, Pow(beta, i))

\* The AdaMax step without the bias correction of the step size.
AdaMaxStepNoCorrection(iterate_, stepSize, biasCorrection1, m_, u_, epsilon_) ==
  IF biasCorrection1 # Zero
  THEN MatSub(iterate_, MatDiv(ScaleMat(stepSize, m_), MatPlus(u_, epsilon_)))
  ELSE iterate_

\* The AdaMax step without its guard.
AdaMaxStepUnguarded(iterate_, stepSize, biasCorrection1, m_, u_, epsilon_) ==
  MatSub(iterate_, MatDiv(ScaleMat(Div(stepSize, biasCorrection1), m_),
                          MatPlus(u_, epsilon_)))

\* if (biasCorrection1 != 0.0)
\*   iterate -= (stepSize / biasCorrection1 * m / (u + epsilon));
AdaMaxStep(iterate_, stepSize, biasCorrection1, m_, u_, epsilon_) ==
  IF biasCorrection1 # Zero
  THEN MatSub(iterate_, MatDiv(ScaleMat(Div(stepSize, biasCorrection1), m_),
                               MatPlus(u_, epsilon_)))
  ELSE iterate_

\* The Adam step with the exact floor sqrt(biasCorrection2) * epsilon.
AdamStepExactFloor(iterate_, stepSize, biasCorrection1, biasCorrection2, m_, v_, epsilon_) ==
  MatSub(iterate_,
         MatDiv(ScaleMat(Div(Mul(stepSize, Sqrt(biasCorrection2)),
                             biasCorrection1), m_),
                MatPlus(MatSqrt(v_), Mul(Sqrt(biasCorrection2), epsilon_))))

\* The Adam step behind the guard of the AdaMax step.
AdamStepGuarded(iterate_, stepSize, biasCorrection1, biasCorrection2, m_, v_, epsilon_) ==
  IF biasCorrection1 # Zero
  THEN MatSub(iterate_,
              MatDiv(ScaleMat(Div(Mul(stepSize, Sqrt(biasCorrection2)),
                                  biasCorrection1), m_),
                     MatPlus(MatSqrt(v_), epsilon_)))
  ELSE iterate_

\* iterate -= (stepSize * std::sqrt(biasCorrection2) / biasCorrection1) *
\*             m / (arma::sqrt(v) + epsilon);
AdamStep(iterate_, stepSize, biasCorrection1, biasCorrection2, m_, v_, epsilon_) ==
  MatSub(iterate_,
         MatDiv(ScaleMat(Div(Mul(stepSize, Sqrt(biasCorrection2)),
                             biasCorrection1), m_),
                MatPlus(MatSqrt(v_), epsilon_)))

\* ---------------------------------------------------------------- actions
\* AdamUpdate(epsilon, beta1, beta2, adaMax): the matrices are default-
\* constructed; the caller holds a parameter matrix of some shape.
Init ==
  /\ epsilon \in Epsilons
  /\ beta1 \in Beta1s
  /\ beta2 \in Beta2s
  /\ adaMax \in BOOLEAN
  /\ m = Empty
  /\ u = Empty
  /\ v = Empty
  /\ iterate \in UNION {MatsOver(sh[1], sh[2], ParamVals) : sh \in Shapes}
  /\ calls = 0
  /\ last = NoArgs("AdamUpdate")
  /\ run = NoRun

\* void Initialize(const size_t rows, const size_t cols)
Initialize(rows, cols) ==
  /\ m' = InitializeMat(m, rows, cols)
  /\ IF adaMax
     THEN /\ u' = InitializeMat(u, rows, cols)
          /\ v' = v
     ELSE /\ v' = InitializeMat(v, rows, cols)
          /\ u' = u
  /\ last' = [NoCall("Initialize") EXCEPT !.rows = rows, !.cols = cols]
  /\ run' = [open |-> TRUE, n |-> 0, start |-> Empty, gradient |-> Empty,
             inOrder |-> TRUE]
  /\ calls' = calls + 1
  /\ UNCHANGED <<config, iterate>>

\* What a call of Update leaves in last and run.
Called(stepSize, gradient, i, outcome) ==
  /\ last' = [NoCall("Update") EXCEPT !.gradient = gradient,
                !.stepSize = stepSize, !.i = i, !.outcome = outcome]
  /\ run' = IF run.open /\ outcome = "ok"
                        /\ (run.n = 0 \/ gradient = run.gradient)
            THEN [open |-> TRUE, n |-> run.n + 1,
                  start |-> IF run.n = 0 THEN iterate ELSE run.start,
                  gradient |-> gradient,
                  inOrder |-> run.inOrder /\ i = run.n + 1]
            ELSE NoRun
  /\ calls' = calls + 1

\* void Update(arma::mat& iterate, const double stepSize,
\*             const arma::mat& gradient, const size_t i)
\* on accumulators of the shape of gradient and iterate.
Update(stepSize, gradient, i) ==
  /\ Ready
  /\ SameSize(gradient, m)
  /\ SameSize(iterate, m)
  /\ LET m1 == FirstMoment(m, beta1, gradient)
         biasCorrection1 == BiasCorrection(beta1, i)
         biasCorrection2 == BiasCorrection(beta2, i)
     IN  /\ m' = m1
         /\ IF adaMax
            THEN LET u1 == InfinityNorm(u, beta2, gradient)
                 IN  /\ u' = u1
                     /\ v' = v
                     /\ iterate' = AdaMaxStep(iterate, stepSize,
                                              biasCorrection1, m1, u1, epsilon)
            ELSE LET v1 == SecondMoment(v, beta2, gradient)
                 IN  /\ v' = v1
                     /\ u' = u
                     /\ iterate' = AdamStep(iterate, stepSize, biasCorrection1,
                                            biasCorrection2, m1, v1, epsilon)
  /\ Called(stepSize, gradient, i, "ok")
  /\ UNCHANGED config

\* Update when the accumulator the flag selects has not the shape of m, in a
\* build with Armadillo's size checks: the first statement that combines it
\* with gradient throws std::logic_error, after m and the scaling by beta2.
UpdateThrows(stepSize, gradient, i) ==
  /\ NElem(m) > 0
  /\ ~SameSize(Active, m)
  /\ SameSize(gradient, m)
  /\ SameSize(iterate, m)
  /\ m' = FirstMoment(m, beta1, gradient)
  /\ IF adaMax
     THEN u' = MatScale(u, beta2) /\ v' = v
     ELSE v' = MatScale(v, beta2) /\ u' = u
  /\ iterate' = iterate
  /\ Called(stepSize, gradient, i, "logic_error")
  /\ UNCHANGED config

\* The same call in a build with ARMA_NO_DEBUG: the element-wise loops read
\* or write past the end of a matrix, which is undefined.
UpdateUnchecked(stepSize, gradient, i) ==
  /\ NElem(m) > 0
  /\ ~SameSize(Active, m)
  /\ SameSize(gradient, m)
  /\ SameSize(iterate, m)
  /\ m' = FirstMoment(m, beta1, gradient)
  /\ IF adaMax
     THEN u' \in MatsOver(u.n_rows, u.n_cols, GarbageVals) /\ v' = v
     ELSE v' \in MatsOver(v.n_rows, v.n_cols, GarbageVals) /\ u' = u
  /\ iterate' \in MatsOver(iterate.n_rows, iterate.n_cols, GarbageVals)
  /\ Called(stepSize, gradient, i, "undefined")
  /\ UNCHANGED config

\* A write through an accessor, or the caller's write to its own matrix.
Written ==
  /\ last' = NoArgs("write")
  /\ run' = IF run.n = 0 THEN run ELSE NoRun
  /\ calls' = calls + 1

\* double& Epsilon()
SetEpsilon(x) ==
  /\ epsilon' = x
  /\ Written
  /\ UNCHANGED <<beta1, beta2, adaMax, m, u, v, iterate>>

\* double& Beta1()
SetBeta1(x) ==
  /\ beta1' = x
  /\ Written
  /\ UNCHANGED <<epsilon, beta2, adaMax, m, u, v, iterate>>

\* double& Beta2()
SetBeta2(x) ==
  /\ beta2' = x
  /\ Written
  /\ UNCHANGED <<epsilon, beta1, adaMax, m, u, v, iterate>>

\* bool& AdaMax()
SetAdaMax(b) ==
  /\ adaMax' = b
  /\ Written
  /\ UNCHANGED <<epsilon, beta1, beta2, m, u, v, iterate>>

\* The caller replaces its parameter matrix between two calls.
LoadParameters(A) ==
  /\ iterate' = A
  /\ Written
  /\ UNCHANGED <<config, m, u, v>>

Next ==
  /\ calls < MaxCalls
  /\ \/ \E sh \in Shapes : Initialize(sh[1], sh[2])
     \/ \E s \in StepSizes, g \in Gradients(m), i \in Iterations :
          Update(s, g, i)
     \/ \E s \in StepSizes, g \in Gradients(m), i \in Iterations :
          UpdateThrows(s, g, i)
     \/ \E s \in StepSizes, g \in Gradients(m), i \in Iterations :
          UpdateUnchecked(s, g, i)
     \/ \E x \in Epsilons : x # epsilon /\ SetEpsilon(x)
     \/ \E x \in Beta1s : x # beta1 /\ SetBeta1(x)
     \/ \E x \in Beta2s : x # beta2 /\ SetBeta2(x)
     \/ \E b \in BOOLEAN : b # adaMax /\ SetAdaMax(b)
     \/ \E sh \in Shapes : \E A \in MatsOver(sh[1], sh[2], ParamVals) :
          A # iterate /\ LoadParameters(A)

Spec == Init /\ [][Next]_vars

\* The driver of one optimization: Initialize with the shape of the parameter
\* matrix, then Update with i = 1, 2, 3, ... and the same gradient each time.
RunInitialize ==
  /\ NElem(m) = 0
  /\ Initialize(iterate.n_rows, iterate.n_cols)

RunUpdate ==
  /\ run.n < MaxRun
  /\ \E s \in StepSizes, g \in Gradients(m) :
       /\ run.n = 0 \/ g = run.gradient
       /\ Update(s, g, run.n + 1)

RunNext == RunInitialize \/ RunUpdate

RunSpec == Init /\ [][RunNext]_vars

\* ------------------------------------------------------------- properties
\* The state right after an Update call on an initialized policy: last holds
\* the call's arguments and the matrices it started from, and no accessor has
\* been written since, so the configuration is the one the call used.
AfterUpdate == last.op = "Update" /\ last.ready

Elems(A) == 1..NElem(A)
IsZeroMat(A) == \A k \in Elems(A) : A.mem[k] = Zero

\* The bias correction terms of the call in last.
Bias1 == Sub(One, Pow(beta1, last.i))
Bias2 == Sub(One, Pow(beta2, last.i))

\* C1: every Update call on an initialized policy, whatever i, replaces
\* firstMoment by beta1*firstMoment + (1-beta1)*gradient, and secondMoment by
\* beta2*secondMoment + (1-beta2)*gradient*gradient (Adam) or infinityNorm by
\* max(beta2*infinityNorm, |gradient|) (AdaMax), element-wise, from the values
\* before the call.
C1_Recurrences ==
  AfterUpdate =>
    /\ SameSize(m, last.m)
    /\ \A k \in Elems(m) :
         m.mem[k] = Add(Mul(beta1, last.m.mem[k]),
                        Mul(Sub(One, beta1), last.gradient.mem[k]))
    /\ adaMax =>
         /\ SameSize(u, last.u)
         /\ \A k \in Elems(u) :
              u.mem[k] = Max(Mul(beta2, last.u.mem[k]),
                             Abs(last.gradient.mem[k]))
    /\ ~adaMax =>
         /\ SameSize(v, last.v)
         /\ \A k \in Elems(v) :
              v.mem[k] = Add(Mul(beta2, last.v.mem[k]),
                             Mul(Sub(One, beta2),
                                 Mul(last.gradient.mem[k],
                                     last.gradient.mem[k])))

\* An AdaMax call with i = 0 after which the norm is smaller than before: the
\* previous norm was decayed before the maximum was taken.
C1_Witness ==
  /\ AfterUpdate
  /\ adaMax
  /\ last.i = 0
  /\ m # last.m
  /\ \E k \in Elems(u) : Lt(u.mem[k], last.u.mem[k])

\* C2: in Adam mode with i >= 1, Update subtracts from each parameter
\* (stepSize*sqrt(biasCorrection2)/biasCorrection1) * firstMoment /
\* (sqrt(secondMoment) + epsilon), with the moments as updated in this call
\* and the bare epsilon as the floor.
C2_AdamStep ==
  (AfterUpdate /\ ~adaMax /\ last.i >= 1) =>
    /\ SameSize(iterate, last.iterate)
    /\ \A k \in Elems(iterate) :
         iterate.mem[k] =
           Sub(last.iterate.mem[k],
               Mul(Div(Mul(last.stepSize, Sqrt(Bias2)), Bias1),
                   Div(m.mem[k], Add(Sqrt(v.mem[k]), epsilon))))

\* An Adam call with i >= 1 that moves the parameters, where the moments
\* differ from those before the call and sqrt(biasCorrection2)*epsilon differs
\* from epsilon.
C2_Witness ==
  /\ AfterUpdate
  /\ ~adaMax
  /\ last.i >= 1
  /\ iterate # last.iterate
  /\ ~IsZeroMat(last.m)
  /\ m # last.m
  /\ v # last.v
  /\ Mul(Sqrt(Bias2), epsilon) # epsilon

\* C3: in AdaMax mode with biasCorrection1 # 0, Update subtracts from each
\* parameter (stepSize/biasCorrection1) * firstMoment / (infinityNorm +
\* epsilon), with firstMoment and infinityNorm as updated in this call.
C3_AdaMaxStep ==
  (AfterUpdate /\ adaMax /\ Bias1 # Zero) =>
    /\ SameSize(iterate, last.iterate)
    /\ \A k \in Elems(iterate) :
         iterate.mem[k] =
           Sub(last.iterate.mem[k],
               Mul(Div(last.stepSize, Bias1),
                   Div(m.mem[k], Add(u.mem[k], epsilon))))

\* An AdaMax call that moves the parameters while biasCorrection1 and
\* biasCorrection2 are both other than 1.
C3_Witness ==
  /\ AfterUpdate
  /\ adaMax
  /\ Bias1 \notin {Zero, One}
  /\ Bias2 \notin {Zero, One}
  /\ iterate # last.iterate
  /\ ~IsZeroMat(last.m)
  /\ m # last.m
  /\ u # last.u

\* The configuration C4 and C10 assume.
InRange(beta) == Le(Zero, beta) /\ Lt(beta, One)

\* C4: after Initialize, consecutive Update calls with the all-zero gradient
\* and i = 1, 2, 3, ... (epsilon > 0, beta1 and beta2 in [0,1)) leave
\* firstMoment zero and the parameters equal to their value before the first
\* call, in both variants.
C4_ZeroGradient ==
  (/\ run.open
   /\ run.n >= 1
   /\ run.inOrder
   /\ IsZeroMat(run.gradient)
   /\ Lt(Zero, epsilon)
   /\ InRange(beta1)
   /\ InRange(beta2)) =>
    /\ SameSize(m, run.gradient)
    /\ IsZeroMat(m)
    /\ iterate = run.start

\* Three zero-gradient calls in a row on a 2 x 1 matrix in Adam mode.
C4_Witness ==
  /\ run.open
  /\ run.n >= 3
  /\ run.inOrder
  /\ IsZeroMat(run.gradient)
  /\ Lt(Zero, epsilon)
  /\ beta1 # Zero
  /\ beta2 # Zero
  /\ ~adaMax
  /\ NElem(iterate) > 1

\* C5: an AdaMax call with i = 0 leaves the parameters as they were, whatever
\* the gradient, the configuration (beta1 = 0 included) and the accumulators,
\* and reports no error.
C5_AdaMaxIterationZero ==
  (AfterUpdate /\ adaMax /\ last.i = 0) =>
    /\ iterate = last.iterate
    /\ last.outcome = "ok"

\* Such a call with beta1 = 0 and a nonzero gradient.
C5_Witness ==
  /\ AfterUpdate
  /\ adaMax
  /\ last.i = 0
  /\ beta1 = Zero
  /\ ~IsZeroMat(last.gradient)
  /\ m # last.m

\* C6: with i = 0 an Adam call divides by biasCorrection1 = 0 and leaves every
\* parameter non-finite, while the same call in AdaMax mode leaves the
\* parameters as they were.
C6_IterationZeroAsymmetry ==
  (AfterUpdate /\ last.i = 0) =>
    /\ Bias1 = Zero
    /\ adaMax => iterate = last.iterate
    /\ ~adaMax =>
         /\ NElem(iterate) = NElem(last.iterate)
         /\ \A k \in Elems(iterate) : ~IsFinite(iterate.mem[k])

\* An Adam call with i = 0 on finite parameters.
C6_Witness ==
  /\ AfterUpdate
  /\ ~adaMax
  /\ last.i = 0
  /\ \A k \in Elems(last.iterate) : IsFinite(last.iterate.mem[k])
  /\ \E k \in Elems(iterate) : IsNaN(iterate.mem[k])

\* C7, as stated: in the guarded AdaMax case biasCorrection1 = 0 the call does
\* no work: parameters, firstMoment and infinityNorm are as before the call.
C7_AllOrNothing ==
  (AfterUpdate /\ adaMax /\ Bias1 = Zero) =>
    /\ iterate = last.iterate
    /\ m = last.m
    /\ u = last.u

\* C7, amended: in the guarded AdaMax case only the parameter step is
\* skipped; firstMoment and infinityNorm are updated by their recurrences as
\* in every other call.
C7_GuardSkipsOnlyTheStep ==
  (AfterUpdate /\ adaMax /\ Bias1 = Zero) =>
    /\ iterate = last.iterate
    /\ m = MatAdd(MatScale(last.m, beta1),
                  ScaleMat(Sub(One, beta1), last.gradient))
    /\ u = MatMax(MatScale(last.u, beta2), MatAbs(last.gradient))

\* A guarded call that changes both accumulators.
C7_Witness ==
  /\ AfterUpdate
  /\ adaMax
  /\ Bias1 = Zero
  /\ m # last.m
  /\ u # last.u
  /\ ~IsZeroMat(last.u)

\* C8, as stated: once Initialize has run, the accumulator Update reads and
\* writes is the one Initialize allocated at rows x cols, and which of the two
\* it is never changes.
C8_ActiveAccumulatorFixed ==
  [][NElem(m) > 0 => (adaMax' = adaMax /\ SameSize(Active', m'))]_vars

\* C9: right after Initialize(rows, cols), firstMoment and the accumulator
\* the flag selects are rows x cols matrices of zeros, whatever they held.
C9_InitializeZeroes ==
  last.op = "Initialize" =>
    /\ m.n_rows = last.rows /\ m.n_cols = last.cols
    /\ Active.n_rows = last.rows /\ Active.n_cols = last.cols
    /\ Len(m.mem) = last.rows * last.cols
    /\ Len(Active.mem) = last.rows * last.cols
    /\ \A k \in 1..(last.rows * last.cols) :
         m.mem[k] = Zero /\ Active.mem[k] = Zero

\* A second Initialize with the dimensions of the first, on accumulators that
\* Update calls have made nonzero.
C9_Witness ==
  /\ last.op = "Initialize"
  /\ last.ready
  /\ last.m.n_rows = last.rows /\ last.m.n_cols = last.cols
  /\ ~IsZeroMat(last.m)
  /\ ~IsZeroMat(IF adaMax THEN last.u ELSE last.v)

\* |a - b|
Dist(a, b) == Abs(Sub(a, b))

\* What the accumulators of a constant-gradient run approach.
Tolerance == Q(1, 2)
Square(a) == Mul(a, a)
Near(target, x) == Lt(Dist(target, x), Tolerance)

Converged ==
  /\ run.open
  /\ run.n >= 1
  /\ \A k \in Elems(m) : Near(run.gradient.mem[k], m.mem[k])
  /\ adaMax => \A k \in Elems(u) : Near(Abs(run.gradient.mem[k]), u.mem[k])
  /\ ~adaMax => \A k \in Elems(v) : Near(Square(run.gradient.mem[k]), v.mem[k])

====
